---- MODULE Spec2Model ----
(***************************************************************************)
(* Conversation backend of the family weekend planner: the in-memory       *)
(* session store, the ConversationManager, and the chat route's turn       *)
(* handler (send_message / _generate_response) with its collaborators      *)
(* (AI extractor, plan generation, place enrichment) as inputs.            *)
(*                                                                         *)
(* Python values are modelled as follows: None is the string "None"; an    *)
(* Optional[TravelTime] is a sequence of length 0 (None) or 1 (minutes);   *)
(* utterances and replies are short ASCII tags standing for the Japanese   *)
(* texts of the source.  The route handlers are "async def" bodies without *)
(* any await, so each one runs to completion on the event loop: one        *)
(* handler is one atomic action.                                           *)
(***************************************************************************)
EXTENDS Integers, Sequences, FiniteSets, TLC

(* ------------------------------ bounds --------------------------------- *)
MaxMessages == 2
MaxClock == 31

(* -------------------------- program constants -------------------------- *)
SessionTimeoutMinutes == 30
MaxSpotRequests == 2

\* One step of the modelled clock: just over the idle timeout
ClockStep == SessionTimeoutMinutes + 1

None == "None"

\* models/conversation.py: the members the enum declares
ConversationState ==
    {"INITIAL", "GATHERING_PREFERENCES", "GENERATING_PLAN", "PRESENTING_PLAN",
     "REFINING", "COMPLETED"}

\* The DialogueState set of the specification (section 4.6)
DialogueState == ConversationState \cup {"FREE_INPUT"}

\* Attribute lookup ConversationState.<name>: succeeds only for a declared
\* member; otherwise Python raises AttributeError at the point of evaluation.
EnumMember(name) == name \in ConversationState

\* The uuid4 tokens the store can issue, and the identifiers a caller may
\* present: those and one that never names a session.  A handler touches
\* only the record of the identifier it is given.
SessionIds == {"s1"}
RequestIds == SessionIds \cup {"invalid-id"}

VARIABLES sessions, issued, now, last, inflight, geocoding_cache, place_details_cache

vars == <<sessions, issued, now, last, inflight, geocoding_cache, place_details_cache>>

(* ------------------------------ utterances ----------------------------- *)
\* "plain": free text without any pattern; "coords": the current-location
\* button text; "showmore": the show-more quick reply.
UPlain == "plain"
UCoords == "coords"
UShowMore == "showmore"
\* the texts the keyword rules look for
U60Min == "60min"          \* "60分"
U0Min == "0min"            \* "0分"
U1Hour == "1hour"          \* "1時間"
UAge3 == "age3"            \* "3歳"
UCar == "car"              \* "車"
UCarYes == "car_yes"       \* "車あり"
UCarNo == "car_no"         \* "車なし（公共交通機関）"
UTrain == "train_bus"      \* "電車・バス"
UActive == "active"        \* "アクティブ"
UIndoor == "indoor"        \* "インドア"
UMealsYes == "meals_yes"   \* "とる"
UMealsNo == "meals_no"     \* "とらない"

\* The utterances the turn actions draw from
Utterances == {UPlain, UCoords, UShowMore, U60Min}

\* re.search(r'緯度:\s*(-?\d+\.\d+).*経度:\s*(-?\d+\.\d+)', user_message)
CoordMatch(msg) == msg = UCoords

\* "別のプラン" in m or "他の提案" in m or "他の候補" in m
ShowMoreTrigger(msg) == msg = UShowMore

\* "車" in m or "car" in m.lower()   ("電車" contains "車")
CarWord(msg) == msg \in {UCar, UCarYes, UCarNo, UTrain}
\* "ある" in m or "あり" in m or "使える" in m
CarAffirm(msg) == msg \in {UCarYes}
\* m.strip() == "車"
CarExact(msg) == msg = UCar
\* "ない" in m or "なし" in m
NegativeWord(msg) == msg \in {UCarNo, UMealsNo}
\* "電車" in m or "公共交通" in m or "バス" in m
PublicWord(msg) == msg \in {UTrain, UCarNo}
\* ("歳" in m or "才" in m) and re.search(r'(\d+(?:-\d+)?)[歳才]', m): group(1)
AgeMatch(msg) == IF msg = UAge3 THEN <<"3">> ELSE <<>>
\* "分" in m and any digit, re.search(r'(\d+)\s*分', m): int(group(1))
MinuteWord(msg) == msg \in {U60Min, U0Min}
MinutesMatch(msg) ==
    IF msg = U60Min THEN <<60>> ELSE IF msg = U0Min THEN <<0>> ELSE <<>>
\* "時間" in m and any digit, re.search(r'(\d+)\s*時間', m): int(group(1))
HourWord(msg) == msg \in {U1Hour}
HoursMatch(msg) == IF msg = U1Hour THEN <<1>> ELSE <<>>
\* "アクティブ" in m or "active" in m.lower()
ActiveWord(msg) == msg = UActive
\* "インドア" in m or "indoor" in m.lower()
IndoorWord(msg) == msg = UIndoor
\* "とる" in m or "yes" in m.lower()
MealsYesWord(msg) == msg = UMealsYes
\* "とらない" in m or "no" in m.lower()
MealsNoWord(msg) == msg = UMealsNo

(* --------------------------- preference values ------------------------- *)
\* activity_type texts: "zoo" stands for "動物園", "family" for the default
\* label "家族向け", the other two are the labels the scripted flow stores
AZoo == "zoo"
AFamily == "family"
AActive == "active/outdoor"
AIndoor == "indoor"
\* "kids" stands for a text with an upper-case marker, "Kids Park"
AKids == "kids"

\* Location.address texts: "here" stands for "現在地", "station" for "横浜駅"
AddrHere == "here"
AddrStation == "station"

(* ------------------------------ the model ------------------------------ *)
\* UserPreferences() and ConversationSession(session_id=...) defaults
NewSession ==
    [state |-> "INITIAL",
     address |-> "", coord |-> FALSE,
     travel_time |-> <<>>,
     activity_type |-> None,
     meals |-> <<>>,
     child_age |-> None,
     transportation |-> None,
     shown_place_ids |-> <<>>,
     spots_request_count |-> 0,
     history |-> <<>>,
     created_at |-> now,
     last_updated |-> now]

\* A history that takes the new message at its head
AddMessageFirst(s, role, content) ==
    [s EXCEPT !.history = <<[role |-> role, content |-> content]>> \o @,
              !.last_updated = now]

\* ConversationSession.add_message
AddMessage(s, role, content) ==
    [s EXCEPT !.history = Append(@, [role |-> role, content |-> content]),
              !.last_updated = now]

\* ConversationSession.update_state
UpdateState(s, new_state) ==
    [s EXCEPT !.state = new_state, !.last_updated = now]

\* A store that makes a session for any id it is asked for
StoreGetOrCreate(store, id) ==
    IF id \in DOMAIN store THEN <<store[id]>> ELSE <<NewSession>>

\* SessionStore.get_session: dict.get; the Optional result is a sequence,
\* <<>> for None and <<session>> for a hit
StoreGet(store, id) ==
    IF id \in DOMAIN store THEN <<store[id]>> ELSE <<>>

\* A store that counts every save as a show-more cycle
StoreUpdateCounting(store, id, s) ==
    [k \in (DOMAIN store) \cup {id} |->
        IF k = id
        THEN [s EXCEPT !.last_updated = now, !.spots_request_count = @ + 1]
        ELSE store[k]]

\* A store that stamps a save with the creation time
StoreUpdateCreated(store, id, s) ==
    [k \in (DOMAIN store) \cup {id} |->
        IF k = id THEN [s EXCEPT !.last_updated = s.created_at] ELSE store[k]]

\* SessionStore.update_session: stamps last_updated and (re)binds the key
\* A store that keeps only the session it is given
StoreUpdateOnly(store, id, s) ==
    [k \in {id} |-> [s EXCEPT !.last_updated = now]]

StoreUpdate(store, id, s) ==
    [k \in (DOMAIN store) \cup {id} |->
        IF k = id THEN [s EXCEPT !.last_updated = now] ELSE store[k]]

\* SessionStore.delete_session
StoreDelete(store, id) ==
    [k \in (DOMAIN store) \ {id} |-> store[k]]

\* SessionStore.cleanup_expired_sessions: the ids it removes
\* A sweep whose cutoff comparison is not strict
ExpiredSessionsInclusive(store) ==
    {k \in DOMAIN store : store[k].last_updated <= now - SessionTimeoutMinutes}

ExpiredSessions(store) ==
    {k \in DOMAIN store : store[k].last_updated < now - SessionTimeoutMinutes}

(* ConversationManager mutators, applied to the record the store holds.   *)
(* Within one handler the session cannot vanish (no await), so the        *)
(* "session not found" early returns of the mutators are decided once, in *)
(* the handler's action.                                                   *)

\* ConversationManager.transition_state (store.update_session stamps the time)
\* A transition that also starts the suggestion counter afresh
TransitionStateReset(s, new_state) ==
    [UpdateState(s, new_state) EXCEPT !.spots_request_count = 0]

TransitionState(s, new_state) == UpdateState(s, new_state)

\* ConversationManager.update_preferences(location=Location(...))
SetLocation(s, addr, hasCoord) ==
    [s EXCEPT !.address = addr, !.coord = hasCoord, !.last_updated = now]

\* ConversationManager.update_preferences(<field>=<value>)
SetPref(s, field, value) ==
    [s EXCEPT ![field] = value, !.last_updated = now]

\* Python truthiness of an Optional[str]
Truthy(x) == x \notin {None, ""}

\* A check that forgets the location
HasIntentOnly(s) == Truthy(s.activity_type) \/ s.travel_time # <<>>

\* ConversationManager.has_sufficient_preferences
HasSufficientPreferences(s) ==
    /\ s.address # ""
    /\ (Truthy(s.activity_type) \/ s.travel_time # <<>>)

\* the family/child marker scan of get_critical_missing_info:
\* any(word in activity_type.lower() for word in ["子","child","kid","family","家族"])
\* "ko" stands for "子" and "kazoku" for "家族"
MarkerWords == {"ko", "child", "kid", "family", "kazoku"}

\* the marker words found in activity_type.lower()
MarkersIn(activity) ==
    IF activity = AFamily THEN {"kazoku"}
    ELSE IF activity = AKids THEN {"kid"}
    ELSE {}

FamilyMarked(activity) == MarkersIn(activity) \cap MarkerWords # {}

\* A check that asks for the child age whatever the activity is
GetCriticalMissingInfoAnyActivity(s) ==
    (IF s.address = "" THEN <<"location">> ELSE <<>>)
    \o (IF ~Truthy(s.child_age) THEN <<"child_age">> ELSE <<>>)

\* ConversationManager.get_critical_missing_info
GetCriticalMissingInfo(s) ==
    (IF s.address = "" THEN <<"location">> ELSE <<>>)
    \o (IF ~Truthy(s.child_age)
           /\ Truthy(s.activity_type)
           /\ FamilyMarked(s.activity_type)
        THEN <<"child_age">> ELSE <<>>)


(* --------------------------- AI extractor ------------------------------ *)
\* VertexAIService._empty_extraction
EmptyExtraction ==
    [shape |-> "dict", address |-> None, explicit |-> FALSE, travel |-> <<>>,
     activity_type |-> None, meals |-> <<>>, child_age |-> None,
     transportation |-> None, enough |-> FALSE]

\* An extractor that answers a failed call with a filled-in extraction
ExtractOrGuess(llm) ==
    IF llm.kind = "json" THEN llm.obj
    ELSE [EmptyExtraction EXCEPT !.address = AddrStation, !.explicit = TRUE]

\* VertexAIService.extract_preferences_from_freeform.  llm is what the
\* generation collaborator does for the extraction prompt: it raises, replies
\* text without a JSON object, replies text whose {...} span does not parse,
\* or replies text whose {...} span parses to llm.obj.
ExtractPreferencesFromFreeform(llm) ==
    IF llm.kind = "json" THEN llm.obj ELSE EmptyExtraction

(* ------------------------- replies and quick replies ------------------- *)
RAskFromWhere == "ask_from_where"            \* chat.py:385
RAskChildAge == "ask_child_age"              \* chat.py:388, 491, 584
RThanksWillPlan == "thanks_will_plan"        \* chat.py:403
RFallbackInitial == "tell_more_where"        \* chat.py:413
RSessionLost == "session_lost"               \* chat.py:478, 572
RAskFromWhereFree == "ask_from_where_free"   \* chat.py:496, 589
RMoreDetailExample == "more_detail_example"  \* chat.py:608
RSayAgain == "say_again"                     \* chat.py:616
RMoreDetail == "more_detail"                 \* chat.py:624
RAskDeparture == "ask_departure"             \* chat.py:639
RAskMeals == "ask_meals"                     \* chat.py:883
RAskAge == "ask_age"                         \* chat.py:890
RAskTime == "ask_time"                       \* chat.py:897
RAskCar == "ask_car"                         \* chat.py:904
RThanksAnswers == "thanks_answers"           \* chat.py:909
RRefusal == "no_more_candidates"             \* chat.py:933
RErrShowMore == "sorry_more_spots"           \* chat.py:996
RPlanHelp == "plan_help"                     \* chat.py:999
RDefault == "thanks_question"                \* chat.py:1003
NoReply == "no_reply"

QRShowMore == "show_more"                    \* "他の候補を見る"
QRAges == <<"0-2", "3-5", "6-8", "9-12", "other">>

\* The apology chosen from str(e).lower(), chat.py:708-720 and 864-876
ErrorMessage(markers) ==
    IF "timeout" \in markers THEN "sorry_timeout"
    ELSE IF "quota" \in markers THEN "sorry_quota"
    ELSE IF "network" \in markers THEN "sorry_network"
    ELSE IF "auth" \in markers THEN "sorry_auth"
    ELSE "sorry_generic"

(* ----------------------- results of the turn handler ------------------- *)
\* Collaborator calls made while handling one utterance
NoCalls == [ext |-> 0, gen |-> 0, exclude |-> <<>>, temp |-> "none", again |-> 0]

AddCalls(a, b) ==
    [ext |-> a.ext + b.ext, gen |-> a.gen + b.gen,
     exclude |-> IF b.gen > 0 THEN b.exclude ELSE a.exclude,
     temp |-> IF b.gen > 0 THEN b.temp ELSE a.temp,
     again |-> a.again + b.again]

\* _generate_response returns (response_message, quick_replies, enriched_places)
Returned(s, reply, qr, places, tr) ==
    [s |-> s, reply |-> reply, qr |-> qr, places |-> places,
     raised |-> None, tr |-> tr]

\* ... or an exception leaves it
Raised(s, exc, tr) ==
    [s |-> s, reply |-> NoReply, qr |-> <<>>, places |-> <<>>,
     raised |-> exc, tr |-> tr]

\* The headers "### n. name" of a plan text, as what the places service does
\* for each: "blank" is a header whose name is blank after strip();
\* "notfound": find_place_by_text returns None; "raise": find_place_by_text
\* raises GoogleMapsError; "nodetails": get_place_details returns None;
\* "detailsraise": get_place_details raises GoogleMapsError; any other token
\* is the place id of a facility the service finds and details.
\* One pass of the loop body (chat.py:101-186): what it appends
EnrichOne(f) ==
    IF f = "blank" THEN <<>>                    \* if not facility_name: continue
    ELSE IF f = "raise" THEN <<>>               \* except Exception: continue
    ELSE IF f = "notfound" THEN <<>>            \* if not place: continue
    ELSE IF f = "detailsraise" THEN <<>>        \* except Exception: continue
    ELSE IF f = "nodetails" THEN <<>>           \* None.get raises; except: continue
    ELSE <<f>>

RECURSIVE EnrichLoop(_, _)
EnrichLoop(matches, enriched_places) ==
    IF matches = <<>> THEN enriched_places
    ELSE EnrichLoop(Tail(matches), enriched_places \o EnrichOne(Head(matches)))

\* An enrichment whose try surrounds the loop: the first failure ends it
RECURSIVE EnrichUntilFailure(_, _)
EnrichUntilFailure(matches, enriched_places) ==
    IF matches = <<>> THEN enriched_places
    ELSE IF Head(matches) # "blank" /\ EnrichOne(Head(matches)) = <<>> THEN enriched_places
    ELSE EnrichUntilFailure(Tail(matches), enriched_places \o EnrichOne(Head(matches)))

ExtractAndEnrichUntilFailure(gen) == EnrichUntilFailure(gen.facilities, <<>>)

\* _extract_and_enrich_places: the place ids of the facilities whose lookup
\* and details call both succeeded, in order of appearance
ExtractAndEnrichPlaces(gen) == EnrichLoop(gen.facilities, <<>>)

\* ["他の候補を見る"] if prefs.spots_request_count < 2 else None
ShowMoreOffer(s) ==
    IF s.spots_request_count < MaxSpotRequests THEN <<QRShowMore>> ELSE <<>>

PlanCall == [ext |-> 0, gen |-> 1, exclude |-> <<>>, temp |-> "default", again |-> 0]
ExtCall == [ext |-> 1, gen |-> 0, exclude |-> <<>>, temp |-> "none", again |-> 0]

\* chat.py:686-702 (and 842-858): shown_place_ids, PRESENTING_PLAN, the reply
PresentPlan(s, gen, ids) ==
    Returned(TransitionState(SetPref(s, "shown_place_ids", ids), "PRESENTING_PLAN"),
             gen.text, ShowMoreOffer(s), ids, PlanCall)

\* The try block of chat.py:650-722 (and its copy 806-878): prompt,
\* generate_content, enrichment, shown_place_ids, PRESENTING_PLAN
GeneratePlan(s, gen) ==
    IF ~gen.ok
    THEN Returned(s, ErrorMessage(gen.markers), <<>>, <<>>, PlanCall)
    ELSE PresentPlan(s, gen, ExtractAndEnrichPlaces(gen))

\* chat.py:975-992: the new ids are appended and the counter incremented
RecordMore(s, ids) ==
    [s EXCEPT !.shown_place_ids = @ \o ids,
              !.spots_request_count = @ + 1,
              !.last_updated = now]

MoreReturned(s1, gen, ids, tr) ==
    Returned(s1, gen.text, ShowMoreOffer(s1), ids, tr)

\* chat.py:935-996: the show-more cycle
ShowMore(s, gen) ==
    IF ~gen.ok
    THEN Returned(s, RErrShowMore, <<>>, <<>>,
                  [PlanCall EXCEPT !.exclude = s.shown_place_ids, !.temp = "0.85"])
    ELSE MoreReturned(RecordMore(s, ExtractAndEnrichPlaces(gen)), gen,
                      ExtractAndEnrichPlaces(gen),
                      [PlanCall EXCEPT !.exclude = s.shown_place_ids, !.temp = "0.85"])

(* ------------------------ branches of the handler ---------------------- *)
\* update_preferences(<field>=<value>) under the if that guards it
SetPrefIf(cond, s, field, value) ==
    IF cond THEN SetPref(s, field, value) ELSE s

SetLocationIf(cond, s, addr, hasCoord) ==
    IF cond THEN SetLocation(s, addr, hasCoord) ELSE s

\* extracted.get("travel_time", {}).get("value") is truthy
TravelGiven(ext) == ext.travel # <<>> /\ ext.travel[1] # 0

\* chat.py:306-347: the INITIAL merge of the extraction
MergeInitial(s, ext, coord_match) ==
    SetPrefIf(ext.meals # <<>>,
      SetPrefIf(Truthy(ext.transportation),
        SetPrefIf(Truthy(ext.child_age),
          SetPrefIf(Truthy(ext.activity_type),
            SetPrefIf(TravelGiven(ext),
              SetLocationIf(Truthy(ext.address) /\ ~coord_match,
                            s, ext.address, FALSE),
              "travel_time", ext.travel),
            "activity_type", ext.activity_type),
          "child_age", ext.child_age),
        "transportation", ext.transportation),
      "meals", ext.meals)

\* chat.py:426-472: the keyword rules of the FREE_INPUT branch
KeywordMatched(msg) ==
    \/ (CarWord(msg) /\ (CarAffirm(msg) \/ CarExact(msg)))
    \/ (~CarWord(msg) /\ PublicWord(msg))
    \/ AgeMatch(msg) # <<>>
    \/ (MinuteWord(msg) /\ MinutesMatch(msg) # <<>>)
    \/ (~MinuteWord(msg) /\ HourWord(msg) /\ HoursMatch(msg) # <<>>)

\* the travel time the FREE_INPUT keyword rules store, <<>> if none
KeywordTravelTime(msg) ==
    IF MinuteWord(msg) THEN MinutesMatch(msg)
    ELSE IF HourWord(msg) /\ HoursMatch(msg) # <<>>
    THEN <<HoursMatch(msg)[1] * 60>>
    ELSE <<>>

\* the transportation the FREE_INPUT keyword rules store, None if none
KeywordTransportation(msg) ==
    IF CarWord(msg)
    THEN (IF CarAffirm(msg) \/ CarExact(msg) THEN "car" ELSE None)
    ELSE IF PublicWord(msg) THEN "public" ELSE None

KeywordMerge(s, msg) ==
    SetPrefIf(KeywordTravelTime(msg) # <<>>,
      SetPrefIf(AgeMatch(msg) # <<>>,
        SetPrefIf(KeywordTransportation(msg) # None,
                  s, "transportation", KeywordTransportation(msg)),
        "child_age", Head(AgeMatch(msg) \o <<None>>)),
      "travel_time", KeywordTravelTime(msg))

\* chat.py:520-566: the FREE_INPUT merge of the extraction; prefs is the
\* live preference object, each guard reads the field it is about to set
MergeFreeInput(s, ext) ==
    SetPrefIf(ext.meals # <<>>,
      SetPrefIf(Truthy(ext.transportation) /\ ~Truthy(s.transportation),
        SetPrefIf(Truthy(ext.child_age) /\ ~Truthy(s.child_age),
          SetPrefIf(Truthy(ext.activity_type),
            SetPrefIf(TravelGiven(ext) /\ s.travel_time = <<>>,
              SetLocationIf(Truthy(ext.address) /\ ext.explicit,
                            s, ext.address, FALSE),
              "travel_time", ext.travel),
            "activity_type", ext.activity_type),
          "child_age", ext.child_age),
        "transportation", ext.transportation),
      "meals", ext.meals)

\* the values the GATHERING_PREFERENCES keyword rules store (chat.py:729-796)
GatheringActivity(msg) ==
    IF ActiveWord(msg) THEN AActive ELSE IF IndoorWord(msg) THEN AIndoor ELSE None

GatheringTransportation(msg) ==
    IF CarWord(msg)
    THEN (IF CarAffirm(msg) THEN "car"
          ELSE IF NegativeWord(msg) THEN "public" ELSE None)
    ELSE IF PublicWord(msg) THEN "public" ELSE None

GatheringMerge(s, msg) ==
    SetPrefIf(GatheringTransportation(msg) # None,
      SetPrefIf(MinuteWord(msg) /\ MinutesMatch(msg) # <<>>,
        SetPrefIf(AgeMatch(msg) # <<>>,
          SetPrefIf(MealsYesWord(msg) \/ MealsNoWord(msg),
            SetPrefIf(GatheringActivity(msg) # None,
                      s, "activity_type", GatheringActivity(msg)),
            "meals", IF MealsYesWord(msg) THEN <<"lunch">> ELSE <<>>),
          "child_age", Head(AgeMatch(msg) \o <<None>>)),
        "travel_time", MinutesMatch(msg)),
      "transportation", GatheringTransportation(msg))

\* chat.py:799 and 920: the five scripted answers (meals is a list, it is
\* never None, so "meals is not None" always holds)
AllFiveKnown(s) ==
    /\ Truthy(s.activity_type)
    /\ Truthy(s.child_age)
    /\ s.travel_time # <<>>
    /\ Truthy(s.transportation)

\* chat.py:880-909: the next scripted question ("meals is None" never holds,
\* so the meal question of 881-886 is never chosen)
GatheringQuestion(s) ==
    IF Truthy(s.activity_type) /\ ~Truthy(s.child_age)
    THEN Returned(s, RAskAge, QRAges, <<>>, NoCalls)
    ELSE IF Truthy(s.activity_type) /\ s.travel_time = <<>>
    THEN Returned(s, RAskTime, <<"30", "60", "90">>, <<>>, NoCalls)
    ELSE IF Truthy(s.activity_type) /\ ~Truthy(s.transportation)
    THEN Returned(s, RAskCar, <<"car_yes", "car_no">>, <<>>, NoCalls)
    ELSE Returned(s, RThanksAnswers, <<>>, <<>>, NoCalls)

\* chat.py:368-403: the clarifying question of the INITIAL branch
InitialQuestion(s, missing_info) ==
    IF missing_info = <<>> THEN Returned(s, RThanksWillPlan, <<>>, <<>>, ExtCall)
    ELSE IF missing_info[1] = "location"
    THEN Returned(s, RAskFromWhere, <<>>, <<>>, ExtCall)
    ELSE Returned(s, RAskChildAge, QRAges, <<>>, ExtCall)

\* chat.py:486-499 and 579-592: the critical question of the FREE_INPUT branch
FreeInputQuestion(s, missing_info, tr) ==
    IF missing_info[1] = "child_age"
    THEN Returned(s, RAskChildAge, QRAges, <<>>, tr)
    ELSE Returned(s, RAskFromWhereFree, <<>>, <<>>, tr)

WithCalls(tr, r) == [r EXCEPT !.tr = AddCalls(tr, @)]

\* `return _generate_response(session, user_message)` from within
\* _generate_response: one re-entrant call
ReCall == [NoCalls EXCEPT !.again = 1]

(* ---------------------------- _generate_response ----------------------- *)
(* s is the session record (the object the store holds), msg the utterance,*)
(* llm the extraction collaborator's behaviour and gen the plan            *)
(* collaborator's behaviour for this turn.  The branches are tried in the  *)
(* order of the if/elif chain; evaluating ConversationState.FREE_INPUT in  *)
(* a condition or an argument raises AttributeError unless the enum        *)
(* declares that member.                                                   *)
RECURSIVE GenerateResponse(_, _, _, _)

\* chat.py:405-416: except Exception of the INITIAL branch
InitialExcept(s, tr) ==
    IF EnumMember("FREE_INPUT")
    THEN Returned(TransitionState(s, "FREE_INPUT"), RFallbackInitial, <<>>, <<>>, tr)
    ELSE Raised(s, "AttributeError", tr)

\* An except clause that calls the handler once more before giving up (the
\* call fails as the first did)
InitialAfterPlanRetry(r) ==
    IF r.raised # None THEN WithCalls(ReCall, InitialExcept(r.s, r.tr)) ELSE r

\* chat.py:360: an exception of the re-entrant call lands in the except clause
InitialAfterPlan(r) ==
    IF r.raised # None THEN InitialExcept(r.s, r.tr) ELSE r

\* chat.py:349-403: s is the session after the merge
InitialDecide(s, extracted, msg, llm, gen) ==
    IF extracted.enough /\ HasSufficientPreferences(s)
    THEN InitialAfterPlan(
             WithCalls(AddCalls(ExtCall, ReCall),
                       GenerateResponse(TransitionState(s, "GENERATING_PLAN"),
                                        msg, llm, gen)))
    ELSE IF ~EnumMember("FREE_INPUT") THEN InitialExcept(s, ExtCall)
    ELSE InitialQuestion(TransitionState(s, "FREE_INPUT"), GetCriticalMissingInfo(s))

\* chat.py:302-347: s is the session after the coordinate rule
InitialTry(s, extracted, msg, llm, gen) ==
    IF extracted.shape # "dict" THEN InitialExcept(s, ExtCall)
    ELSE InitialDecide(MergeInitial(s, extracted, CoordMatch(msg)),
                       extracted, msg, llm, gen)

\* chat.py:282-416
InitialBranch(s, msg, llm, gen) ==
    InitialTry(SetLocationIf(CoordMatch(msg), s, AddrHere, TRUE),
               ExtractPreferencesFromFreeform(llm), msg, llm, gen)

\* chat.py:603 and 613-619: an exception of the re-entrant call is answered
FreeInputAfterPlan(r) ==
    IF r.raised # None THEN Returned(r.s, RSayAgain, <<>>, <<>>, r.tr) ELSE r

\* chat.py:574-611: s is the session after the AI merge
FreeInputDecideAI(s, msg, llm, gen) ==
    IF HasSufficientPreferences(s)
    THEN IF GetCriticalMissingInfo(s) # <<>>
         THEN FreeInputQuestion(s, GetCriticalMissingInfo(s), ExtCall)
         ELSE FreeInputAfterPlan(
                  WithCalls(AddCalls(ExtCall, ReCall),
                            GenerateResponse(TransitionState(s, "GENERATING_PLAN"),
                                             msg, llm, gen)))
    ELSE Returned(s, RMoreDetailExample, <<>>, <<>>, ExtCall)

\* chat.py:514-624: s is the session after keyword matching, not sufficient
FreeInputFallback(s, extracted, msg, llm, gen) ==
    IF KeywordMatched(msg) THEN Returned(s, RMoreDetail, <<>>, <<>>, NoCalls)
    ELSE IF extracted.shape # "dict" THEN Returned(s, RSayAgain, <<>>, <<>>, ExtCall)
    ELSE FreeInputDecideAI(MergeFreeInput(s, extracted), msg, llm, gen)

\* chat.py:480-510: s is the session after keyword matching
FreeInputDecide(s, msg, llm, gen) ==
    IF HasSufficientPreferences(s)
    THEN IF GetCriticalMissingInfo(s) # <<>>
         THEN FreeInputQuestion(s, GetCriticalMissingInfo(s), NoCalls)
         ELSE WithCalls(ReCall,
                        GenerateResponse(TransitionState(s, "GENERATING_PLAN"),
                                         msg, llm, gen))
    ELSE FreeInputFallback(s, ExtractPreferencesFromFreeform(llm), msg, llm, gen)

\* chat.py:418-624
FreeInputBranch(s, msg, llm, gen) ==
    FreeInputDecide(KeywordMerge(s, msg), msg, llm, gen)

\* chat.py:626-722
GeneratingPlanBranch(s, gen) ==
    IF s.address = ""
    THEN IF EnumMember("FREE_INPUT")
         THEN Returned(TransitionState(s, "FREE_INPUT"), RAskDeparture, <<>>, <<>>, NoCalls)
         ELSE Raised(s, "AttributeError", NoCalls)
    ELSE GeneratePlan(SetPrefIf(~Truthy(s.activity_type), s, "activity_type", AFamily),
                      gen)

\* chat.py:798-909: s is the session after the keyword rules
GatheringDecide(s, gen) ==
    IF AllFiveKnown(s)
    THEN GeneratePlan(TransitionState(s, "GENERATING_PLAN"), gen)
    ELSE GatheringQuestion(s)

\* chat.py:724-909
GatheringPreferencesBranch(s, msg, gen) ==
    GatheringDecide(GatheringMerge(s, msg), gen)

\* chat.py:911-999
PresentingPlanBranch(s, msg, llm, gen) ==
    IF ~AllFiveKnown(s)
    THEN WithCalls(ReCall,
                   GenerateResponse(TransitionState(s, "GATHERING_PREFERENCES"),
                                    msg, llm, gen))
    ELSE IF ShowMoreTrigger(msg)
    THEN IF s.spots_request_count >= MaxSpotRequests
         THEN Returned(s, RRefusal, <<>>, <<>>, NoCalls)
         ELSE ShowMore(s, gen)
    ELSE Returned(s, RPlanHelp, <<>>, <<>>, NoCalls)

\* chat.py:270-1003: the if/elif chain
GenerateResponse(s, msg, llm, gen) ==
    IF s.state = "INITIAL" THEN InitialBranch(s, msg, llm, gen)
    ELSE IF ~EnumMember("FREE_INPUT") THEN Raised(s, "AttributeError", NoCalls)
    ELSE IF s.state = "FREE_INPUT" THEN FreeInputBranch(s, msg, llm, gen)
    ELSE IF s.state = "GENERATING_PLAN" THEN GeneratingPlanBranch(s, gen)
    ELSE IF s.state = "GATHERING_PREFERENCES" THEN GatheringPreferencesBranch(s, msg, gen)
    ELSE IF s.state = "PRESENTING_PLAN" THEN PresentingPlanBranch(s, msg, llm, gen)
    ELSE Returned(s, RDefault, <<>>, <<>>, NoCalls)

(* ------------------------- collaborator behaviours --------------------- *)
Extraction(address, travel, activity, child_age, transportation, enough) ==
    [shape |-> "dict", address |-> address, explicit |-> address # None,
     travel |-> travel, activity_type |-> activity, meals |-> <<>>,
     child_age |-> child_age, transportation |-> transportation,
     enough |-> enough]

\* JSON objects the extraction prompt can come back with
ExtractedObjects ==
    { Extraction(AddrStation, <<30>>, AZoo, "3", "car", TRUE),
      Extraction(AddrStation, <<>>, None, None, None, FALSE),
      Extraction(None, <<>>, AFamily, None, None, TRUE),
      Extraction(AddrStation, <<>>, AFamily, None, None, FALSE),
      Extraction(AddrStation, <<30>>, None, None, None, TRUE),
      \* a JSON value that is not of the documented shape ("location": null)
      [EmptyExtraction EXCEPT !.shape = "bad", !.enough = TRUE] }

\* What the collaborator does for the extraction prompt
LlmReplies ==
    { [kind |-> k, obj |-> EmptyExtraction] : k \in {"raise", "nojson", "badjson"} }
    \cup { [kind |-> "json", obj |-> o] : o \in ExtractedObjects }

\* What the collaborator and the places service do for a plan prompt: the
\* call raises with a description carrying the given markers, or returns a
\* text whose facilities resolve to a place id, to nothing, or raise
GenOutcomes ==
    { [ok |-> FALSE, markers |-> {"timeout"}, text |-> "none", facilities |-> <<>>],
      [ok |-> TRUE, markers |-> {}, text |-> "plan_a",
       facilities |-> <<"p1", "notfound", "p2">>] }

NoGen == [ok |-> FALSE, markers |-> {}, text |-> "none", facilities |-> <<>>]

(* --------------------------------- actions ----------------------------- *)
\* What the last operation gave its caller, with the collaborator behaviour
\* the turn ran against (llm: what the collaborator did for the extraction
\* prompt, enough: the flag the extractor reported, gen: what the plan
\* collaborator does when called) and the calls it made (tr)
Outcome(op, id, msg, status) ==
    [op |-> op, id |-> id, msg |-> msg, status |-> status,
     reply |-> NoReply, qr |-> <<>>, places |-> <<>>, state |-> None,
     error |-> None, enough |-> FALSE, gen |-> NoGen, tr |-> NoCalls,
     removed |-> 0, sufficient |-> FALSE, missing |-> <<>>, llm |-> None,
     got |-> <<>>, provider |-> 0]

Init ==
    /\ sessions = [k \in {} |-> NewSession]
    /\ issued = {}
    /\ now = 0
    /\ inflight = {}
    /\ geocoding_cache = <<>>
    /\ place_details_cache = <<>>
    /\ last = Outcome("none", None, None, 0)

\* SessionStore.create_session: uuid4 gives an id never issued before (ids
\* is the supply the exploration draws from)
CreateSessionIn(ids) ==
    \E id \in ids \ issued :
        /\ issued' = issued \cup {id}
        /\ sessions' = StoreUpdate(sessions, id, NewSession)
        /\ last' = [Outcome("create", id, None, 200) EXCEPT !.got = <<NewSession>>]
        /\ UNCHANGED <<now, inflight, geocoding_cache, place_details_cache>>

\* POST /api/chat/session
CreateSession == CreateSessionIn(SessionIds)

\* Messages held by the store (bounds the exploration)
RECURSIVE SumHistory(_, _)
SumHistory(store, ids) ==
    IF ids = {} THEN 0
    ELSE LET k == CHOOSE x \in ids : TRUE
         IN  Len(store[k].history) + SumHistory(store, ids \ {k})

TotalMessages(store) == SumHistory(store, DOMAIN store)

\* send_message after _generate_response: r is what it returned or raised.
\* An exception leaves the handler (HTTP 500) before add_assistant_message;
\* the store keeps what the manager calls had saved.
Respond(id, msg, r, kind, enough, gen) ==
    IF r.raised # None
    THEN /\ sessions' = StoreUpdate(sessions, id, r.s)
         /\ last' = [Outcome("send", id, msg, 500)
                     EXCEPT !.error = r.raised, !.tr = r.tr, !.gen = gen,
                            !.enough = r.tr.ext > 0 /\ enough,
                            !.llm = IF r.tr.ext > 0 THEN kind ELSE None]
    ELSE /\ sessions' = StoreUpdate(sessions, id, AddMessage(r.s, "assistant", r.reply))
         /\ last' = [Outcome("send", id, msg, 200)
                     EXCEPT !.reply = r.reply, !.qr = r.qr, !.places = r.places,
                            !.state = r.s.state, !.tr = r.tr, !.gen = gen,
                            !.enough = r.tr.ext > 0 /\ enough,
                            !.llm = IF r.tr.ext > 0 THEN kind ELSE None]

\* POST /api/chat (send_message)
SendMessage(id, msg, llm, gen) ==
    LET got == StoreGet(sessions, id)
    IN  /\ got # <<>> => TotalMessages(sessions) < MaxMessages
        /\ IF got = <<>>
           THEN /\ last' = Outcome("send", id, msg, 404)
                /\ UNCHANGED sessions
           ELSE Respond(id, msg,
                        GenerateResponse(AddMessage(got[1], "user", msg), msg, llm, gen),
                        llm.kind, ExtractPreferencesFromFreeform(llm).enough, gen)
        /\ UNCHANGED <<issued, now, inflight, geocoding_cache, place_details_cache>>

\* GET /api/chat/session/{id} (get_session_history)
GetSessionHistory(id) ==
    LET got == StoreGet(sessions, id)
    IN  /\ last' = IF got = <<>> THEN Outcome("history", id, None, 404)
                   ELSE [Outcome("history", id, None, 200)
                         EXCEPT !.state = got[1].state]
        /\ UNCHANGED <<sessions, issued, now, inflight, geocoding_cache, place_details_cache>>

\* SessionStore.delete_session (a store operation; no route calls it)
DeleteSession(id) ==
    /\ id \in DOMAIN sessions
    /\ sessions' = StoreDelete(sessions, id)
    /\ last' = Outcome("delete", id, None, 200)
    /\ UNCHANGED <<issued, now, inflight, geocoding_cache, place_details_cache>>

\* cleanup_sessions_task: ConversationManager.cleanup_expired_sessions
CleanupExpiredSessions ==
    LET expired == ExpiredSessions(sessions)
    IN  /\ sessions' = [k \in (DOMAIN sessions) \ expired |-> sessions[k]]
        /\ last' = [Outcome("sweep", None, None, 200)
                    EXCEPT !.removed = Cardinality(expired)]
        /\ UNCHANGED <<issued, now, inflight, geocoding_cache, place_details_cache>>

\* datetime.now() advances
Tick ==
    /\ now + ClockStep <= MaxClock
    /\ now' = now + ClockStep
    /\ last' = Outcome("tick", None, None, 0)
    /\ UNCHANGED <<sessions, issued, inflight, geocoding_cache, place_details_cache>>

Next ==
    \/ CreateSession
    \/ \E id \in RequestIds, msg \in Utterances, llm \in LlmReplies, gen \in GenOutcomes :
           SendMessage(id, msg, llm, gen)
    \/ \E id \in RequestIds : GetSessionHistory(id)
    \/ \E id \in RequestIds : DeleteSession(id)
    \/ CleanupExpiredSessions
    \/ Tick

Spec == Init /\ [][Next]_vars

(* The ConversationManager mutators called directly, as the repository's   *)
(* tests do (tests/test_conversation.py): they put a session in any        *)
(* declared state and set any preference field.                            *)
PreferenceUpdates ==
    { <<"activity_type", AActive>>,
      <<"spots_request_count", MaxSpotRequests>> }

\* ConversationManager.transition_state
MgrTransitionState(id, new_state) ==
    /\ id \in DOMAIN sessions
    /\ sessions[id].state # new_state
    /\ sessions' = StoreUpdate(sessions, id, TransitionState(sessions[id], new_state))
    /\ last' = [Outcome("transition", id, None, 0) EXCEPT !.state = new_state]
    /\ UNCHANGED <<issued, now, inflight, geocoding_cache, place_details_cache>>

\* ConversationManager.update_preferences
MgrUpdatePreferences(id, field, value) ==
    /\ id \in DOMAIN sessions
    /\ sessions[id][field] # value
    /\ sessions' = StoreUpdate(sessions, id, SetPref(sessions[id], field, value))
    /\ last' = Outcome("update", id, None, 0)
    /\ UNCHANGED <<issued, now, inflight, geocoding_cache, place_details_cache>>

\* The declared states the manager is asked for here
ManagedStates == {"GATHERING_PREFERENCES", "GENERATING_PLAN", "PRESENTING_PLAN"}

NextApi ==
    \/ Next
    \/ \E id \in SessionIds, st \in ManagedStates : MgrTransitionState(id, st)
    \/ \E id \in SessionIds, u \in PreferenceUpdates :
           MgrUpdatePreferences(id, u[1], u[2])

SpecApi == Init /\ [][NextApi]_vars

(* The two preference predicates as functions of the preference set: a     *)
(* session is drawn with any combination of the values below and the       *)
(* manager is asked about it.                                              *)
PreferenceSets ==
    { [NewSession EXCEPT !.address = a, !.travel_time = tt, !.activity_type = act,
                         !.child_age = age, !.transportation = tr] :
        a \in {"", AddrStation},
        tt \in {<<>>, <<0>>, <<30>>},
        act \in {None, "", AZoo, AFamily, AKids},
        age \in {None, "", "3"},
        tr \in {None, "car"} }

InitPrefs ==
    /\ now = 0
    /\ inflight = {}
    /\ geocoding_cache = <<>>
    /\ place_details_cache = <<>>
    /\ sessions \in { [k \in SessionIds |-> p] : p \in PreferenceSets }
    /\ issued = SessionIds
    /\ last = Outcome("none", None, None, 0)

\* ConversationManager.has_sufficient_preferences(session)
AskSufficient(id) ==
    /\ id \in DOMAIN sessions
    /\ last' = [Outcome("sufficient", id, None, 0)
                EXCEPT !.sufficient = HasSufficientPreferences(sessions[id])]
    /\ UNCHANGED <<sessions, issued, now, inflight, geocoding_cache, place_details_cache>>

\* ConversationManager.get_critical_missing_info(session)
AskCriticalMissing(id) ==
    /\ id \in DOMAIN sessions
    /\ last' = [Outcome("missing", id, None, 0)
                EXCEPT !.missing = GetCriticalMissingInfo(sessions[id])]
    /\ UNCHANGED <<sessions, issued, now, inflight, geocoding_cache, place_details_cache>>

NextPrefs ==
    \/ \E id \in SessionIds : AskSufficient(id)
    \/ \E id \in SessionIds : AskCriticalMissing(id)

SpecPrefs == InitPrefs /\ [][NextPrefs]_vars


(* ------------- the handlers as coroutines on the event loop ------------ *)
\* uvicorn runs the handlers and cleanup_sessions_task on one event loop: a
\* coroutine keeps the loop until it awaits.  A turn runs in two steps,
\* before and after _generate_response, and inflight holds the turns that
\* are between the two, each with its position (pc) and the session object
\* the handler got from the store (held).
MaxInflight == 2

\* A send_message that awaits the collaborator calls of _generate_response
TurnAwaitsAtGenerate == {"generate"}

\* The positions at which send_message awaits: the body has no await
TurnAwaits == {}

\* A coroutine that is not at an await holds the loop
Running == \E t \in inflight : t.pc \notin TurnAwaits
LoopFree == ~Running

\* send_message up to _generate_response: get_session, the 404 test and
\* add_user_message
BeginTurn(n, id, msg, llm, gen) ==
    LET got == StoreGet(sessions, id)
    IN  /\ LoopFree
        /\ \A t \in inflight : t.n # n
        /\ got # <<>> => TotalMessages(sessions) < MaxMessages
        /\ IF got = <<>>
           THEN /\ last' = Outcome("send", id, msg, 404)
                /\ UNCHANGED <<sessions, inflight>>
           ELSE /\ sessions' = StoreUpdate(sessions, id, AddMessage(got[1], "user", msg))
                /\ inflight' = inflight \cup
                      {[n |-> n, id |-> id, msg |-> msg, llm |-> llm, gen |-> gen,
                        pc |-> "generate", held |-> AddMessage(got[1], "user", msg)]}
                /\ last' = Outcome("begin", id, msg, 0)
        /\ UNCHANGED <<issued, now, geocoding_cache, place_details_cache>>

\* The rest of a turn whose session has left the store: the manager calls
\* find no session and store nothing; the handler works on the object it holds
Orphaned(t) ==
    LET r == GenerateResponse(t.held, t.msg, t.llm, t.gen)
    IN  /\ UNCHANGED sessions
        /\ last' = [Outcome("send", t.id, t.msg, IF r.raised # None THEN 500 ELSE 200)
                    EXCEPT !.error = r.raised, !.reply = r.reply, !.tr = r.tr,
                           !.gen = t.gen]

\* send_message from _generate_response on: the handler's session is the
\* object the store holds
FinishTurn(t) ==
    /\ t \in inflight
    /\ Running => t.pc \notin TurnAwaits
    /\ inflight' = inflight \ {t}
    /\ IF t.id \in DOMAIN sessions
       THEN Respond(t.id, t.msg,
                    GenerateResponse(sessions[t.id], t.msg, t.llm, t.gen),
                    t.llm.kind, ExtractPreferencesFromFreeform(t.llm).enough, t.gen)
       ELSE Orphaned(t)
    /\ UNCHANGED <<issued, now, geocoding_cache, place_details_cache>>

\* create_session, when the loop runs it
HandleCreateSession == LoopFree /\ CreateSession

\* get_session_history, when the loop runs it
HandleSessionHistory(id) == LoopFree /\ GetSessionHistory(id)

\* cleanup_sessions_task wakes from asyncio.sleep and sweeps
SweepTask == LoopFree /\ CleanupExpiredSessions

\* time passes between two callbacks of the loop
LoopTick == LoopFree /\ Tick

NextConc ==
    \/ HandleCreateSession
    \/ \E n \in 1..MaxInflight, id \in RequestIds, msg \in Utterances,
          llm \in LlmReplies, gen \in GenOutcomes : BeginTurn(n, id, msg, llm, gen)
    \/ \E t \in inflight : FinishTurn(t)
    \/ \E id \in RequestIds : HandleSessionHistory(id)
    \/ SweepTask
    \/ LoopTick

SpecConc == Init /\ [][NextConc]_vars


(* ---------------- the store and the manager called on their own -------- *)
StoreIds == {"s1", "s2"}

\* ConversationManager.add_user_message
MgrAddUserMessage(id, msg) ==
    /\ id \in DOMAIN sessions
    /\ TotalMessages(sessions) < MaxMessages
    /\ sessions' = StoreUpdate(sessions, id, AddMessage(sessions[id], "user", msg))
    /\ last' = Outcome("add_user", id, msg, 0)
    /\ UNCHANGED <<issued, now, inflight, geocoding_cache, place_details_cache>>

\* ConversationManager.add_assistant_message
MgrAddAssistantMessage(id, msg) ==
    /\ id \in DOMAIN sessions
    /\ TotalMessages(sessions) < MaxMessages
    /\ sessions' = StoreUpdate(sessions, id, AddMessage(sessions[id], "assistant", msg))
    /\ last' = Outcome("add_assistant", id, msg, 0)
    /\ UNCHANGED <<issued, now, inflight, geocoding_cache, place_details_cache>>

\* ConversationManager.get_session
MgrGetSession(id) ==
    /\ last' = [Outcome("get", id, None, 0) EXCEPT !.got = StoreGet(sessions, id)]
    /\ UNCHANGED <<sessions, issued, now, inflight, geocoding_cache, place_details_cache>>

\* datetime.now() read at a later instant
TickTo(t) ==
    /\ t > now
    /\ now' = t
    /\ last' = Outcome("tick", None, None, 0)
    /\ UNCHANGED <<sessions, issued, inflight, geocoding_cache, place_details_cache>>

NextStore ==
    \/ CreateSessionIn(StoreIds)
    \/ \E id \in StoreIds : MgrAddUserMessage(id, UPlain)
    \/ \E id \in StoreIds : MgrAddAssistantMessage(id, RDefault)
    \/ \E id \in StoreIds : MgrTransitionState(id, "GATHERING_PREFERENCES")
    \/ \E id \in StoreIds, u \in PreferenceUpdates : MgrUpdatePreferences(id, u[1], u[2])
    \/ \E id \in StoreIds : MgrGetSession(id)
    \/ CleanupExpiredSessions
    \* the instants the clock is read at: at the last one a session touched at
    \* the first is past the timeout and one touched at the second is exactly
    \* at it
    \/ \E t \in {0, 1, SessionTimeoutMinutes + 1} : TickTo(t)

SpecStore == Init /\ [][NextStore]_vars


(* --------------- the cached lookups of the mapping service ------------- *)
\* SimpleCache(max_size=500, ttl_seconds=86400) and (max_size=500, ttl_seconds=3600)
CacheMaxSize == 500
GeocodingTtlSeconds == 86400
PlaceDetailsTtlSeconds == 3600

\* A cache is the OrderedDict as the sequence of its entries, oldest first;
\* the clock is read in minutes.  (The hit and miss counters are left out.)
\* SimpleCache.get: the value returned (None for a miss, for an expired entry
\* and for a stored None) and the cache it leaves
CacheGet(cache, key, ttl_seconds) ==
    LET at == {i \in 1..Len(cache) : cache[i].key = key}
        rest == SelectSeq(cache, LAMBDA e : e.key # key)
    IN  IF at = {} THEN [value |-> None, cache |-> cache]
        ELSE LET e == cache[CHOOSE i \in at : TRUE]
             IN  IF (now - e.timestamp) * 60 > ttl_seconds
                 THEN [value |-> None, cache |-> rest]
                 ELSE [value |-> e.value, cache |-> Append(rest, e)]

\* SimpleCache.set
CacheSet(cache, key, value) ==
    LET put == Append(SelectSeq(cache, LAMBDA e : e.key # key),
                      [key |-> key, value |-> value, timestamp |-> now])
    IN  IF Len(put) > CacheMaxSize THEN Tail(put) ELSE put

\* What a cached lookup does with the value the cache gave: return it, or ask
\* the provider (reply: "found", "none" for an empty answer, "raise")
Lookup(op, key, g, reply) ==
    IF g.value # None
    THEN [cache |-> g.cache,
          out |-> [Outcome(op, key, None, 200) EXCEPT !.got = <<g.value>>]]
    ELSE IF reply = "raise"
    THEN [cache |-> g.cache,
          out |-> [Outcome(op, key, None, 500)
                   EXCEPT !.error = "GoogleMapsError", !.provider = 1]]
    ELSE IF reply = "none"
    THEN [cache |-> CacheSet(g.cache, key, None),
          out |-> [Outcome(op, key, None, 200) EXCEPT !.provider = 1]]
    ELSE [cache |-> CacheSet(g.cache, key, "found"),
          out |-> [Outcome(op, key, None, 200)
                   EXCEPT !.got = <<"found">>, !.provider = 1]]

\* GoogleMapsService.geocode_address
GeocodeAddress(address, reply) ==
    LET r == Lookup("geocode", address,
                    CacheGet(geocoding_cache, address, GeocodingTtlSeconds), reply)
    IN  /\ geocoding_cache' = r.cache
        /\ last' = r.out
        /\ UNCHANGED <<sessions, issued, now, inflight, place_details_cache>>

\* GoogleMapsService.get_place_details
GetPlaceDetails(place_id, reply) ==
    LET r == Lookup("details", place_id,
                    CacheGet(place_details_cache, place_id, PlaceDetailsTtlSeconds), reply)
    IN  /\ place_details_cache' = r.cache
        /\ last' = r.out
        /\ UNCHANGED <<sessions, issued, now, inflight, geocoding_cache>>

NextCache ==
    \/ \E address \in {"a1", "a2"}, reply \in {"found", "none", "raise"} :
           GeocodeAddress(address, reply)
    \/ \E reply \in {"found", "none", "raise"} : GetPlaceDetails("p1", reply)
    \/ \E t \in {60, 61, 1440, 1441} : TickTo(t)

SpecCache == Init /\ [][NextCache]_vars


(* ------------------- the enrichment called on its own ------------------ *)
MaxFacilities == 3

FacilityKinds == {"p1", "p2", "blank", "notfound", "raise", "nodetails", "detailsraise"}

RECURSIVE SeqsUpTo(_, _)
SeqsUpTo(S, n) ==
    IF n = 0 THEN {<<>>}
    ELSE LET shorter == SeqsUpTo(S, n - 1)
         IN  shorter \cup {Append(q, x) : q \in shorter, x \in S}

\* Plan texts by the facility headers they carry
PlanTexts ==
    { [ok |-> TRUE, markers |-> {}, text |-> "plan_a", facilities |-> fs] :
        fs \in SeqsUpTo(FacilityKinds, MaxFacilities) }

InitPlaces ==
    /\ now = 0
    /\ inflight = {}
    /\ geocoding_cache = <<>>
    /\ place_details_cache = <<>>
    /\ sessions = [k \in {} |-> NewSession]
    /\ issued = {}
    /\ \E gen \in PlanTexts : last = [Outcome("plan", None, None, 0) EXCEPT !.gen = gen]

\* _extract_and_enrich_places(plan_text) returns
EnrichPlaces ==
    /\ last.op = "plan"
    /\ last' = [last EXCEPT !.op = "enrich", !.places = ExtractAndEnrichPlaces(last.gen)]
    /\ UNCHANGED <<sessions, issued, now, inflight, geocoding_cache, place_details_cache>>

NextPlaces == EnrichPlaces

SpecPlaces == InitPlaces /\ [][NextPlaces]_vars


(* ------------------------------- properties ---------------------------- *)
\* A turn: the step is POST /message for id, on a session the store holds
Turn(id) ==
    /\ last'.op = "send"
    /\ last'.id = id
    /\ id \in DOMAIN sessions
    /\ id \in DOMAIN sessions'

\* The clarifying question the handler words for a critical_missing entry
QuestionFor(entry) ==
    IF entry = "location" THEN {RAskFromWhere, RAskFromWhereFree}
    ELSE {RAskChildAge}

\* The turn attempted plan generation and the session moved on to it
WentToGeneration(id) ==
    /\ sessions'[id].state \in {"GENERATING_PLAN", "PRESENTING_PLAN"}
    /\ last'.tr.gen = 1

\* C1: every turn on an existing session ends with a normal reply (status
\* 200, an assistant message returned and recorded); only the not-found
\* condition, the session being absent, leaves the handler as an error.
C1_EveryTurnReplies ==
    [][\A id \in RequestIds :
          (last'.op = "send" /\ last'.id = id /\ id \in DOMAIN sessions)
          => /\ last'.status = 200
             /\ last'.reply # NoReply
             /\ id \in DOMAIN sessions'
             /\ Len(sessions'[id].history) = Len(sessions[id].history) + 2]_vars

\* C2: a message or a history read for an id the store does not hold ends as
\* not-found (404), appends no message, and neither creates the session nor
\* brings a removed one back: the store is left exactly as it was.
C2_UnknownIdNotFound ==
    [][\A id \in RequestIds :
          (last'.op \in {"send", "history"} /\ last'.id = id
           /\ id \notin DOMAIN sessions)
          => /\ last'.status = 404
             /\ last'.reply = NoReply
             /\ sessions' = sessions
             /\ issued' = issued]_vars

\* C2 witness: a message for an id that was issued and has since been removed
\* (deleted or swept) was answered with 404 and the store is still empty
C2_Witness ==
    /\ last.op = "send"
    /\ last.status = 404
    /\ last.id \in issued
    /\ last.id \notin DOMAIN sessions

\* C3: the state of every session is a member of the dialogue state set, and
\* every state the turn handler compares against or moves to (FREE_INPUT
\* included) is a declared member, so that no turn fails resolving one.
C3_StatesDeclared ==
    /\ \A id \in DOMAIN sessions : sessions[id].state \in DialogueState
    /\ last.op = "send" => last.error # "AttributeError"

\* C4: a turn handled in INITIAL moves the session to GENERATING_PLAN and
\* attempts plan generation within the same turn exactly when the extractor
\* reported enough_to_generate and the merged preferences are sufficient.
C4_InitialGeneratesIff ==
    [][\A id \in SessionIds :
          (Turn(id) /\ sessions[id].state = "INITIAL")
          => (WentToGeneration(id)
              <=> (last'.enough /\ HasSufficientPreferences(sessions'[id])))]_vars

\* C5: a turn handled in INITIAL that does not go to generation leaves the
\* session in FREE_INPUT, and its reply is the clarifying question chosen by
\* the first entry of critical_missing (location before child age).
C5_InitialAsks ==
    [][\A id \in SessionIds :
          (Turn(id) /\ sessions[id].state = "INITIAL"
           /\ ~(last'.enough /\ HasSufficientPreferences(sessions'[id])))
          => /\ sessions'[id].state = "FREE_INPUT"
             /\ last'.status = 200
             /\ GetCriticalMissingInfo(sessions'[id]) # <<>>
             /\ last'.reply \in QuestionFor(GetCriticalMissingInfo(sessions'[id])[1])]_vars

\* A session collecting free input: it has taken its first utterance and has
\* not gone to plan generation (the state the INITIAL branch calls FREE_INPUT)
CollectingFreeInput(s) ==
    \/ s.state = "FREE_INPUT"
    \/ s.state = "INITIAL" /\ s.history # <<>>

\* C6: a turn of a session collecting free input ends in one of two ways.
\* With sufficient preferences and no critical entry missing it goes to plan
\* generation in the same turn; with a critical entry missing the session
\* stays in FREE_INPUT and the reply asks for the first missing entry
\* (location before child age), which asks for the location whenever none
\* is stored. (A location with nothing else is neither case: the third
\* alternative leaves that reply open.)
C6_FreeInputTurn ==
    [][\A id \in SessionIds :
          (Turn(id) /\ CollectingFreeInput(sessions[id]))
          => /\ last'.status = 200
             /\ \/ /\ WentToGeneration(id)
                   /\ HasSufficientPreferences(sessions'[id])
                \/ /\ sessions'[id].state = "FREE_INPUT"
                   /\ GetCriticalMissingInfo(sessions'[id]) # <<>>
                   /\ last'.reply \in QuestionFor(GetCriticalMissingInfo(sessions'[id])[1])
                \/ /\ sessions'[id].state = "FREE_INPUT"
                   /\ sessions'[id].address # ""
                   /\ ~HasSufficientPreferences(sessions'[id])
                   /\ GetCriticalMissingInfo(sessions'[id]) = <<>>]_vars

\* C7: a turn in GENERATING_PLAN with a known location and a successful
\* generation leaves the session in PRESENTING_PLAN with an activity type set
\* (the family default when none was given), shown_place_ids equal to the
\* places resolved from the plan, the plan text as the reply, and the
\* show-more quick reply offered exactly when the counter is below 2.
C7_GeneratingPlanSucceeds ==
    [][\A id \in SessionIds :
          (Turn(id) /\ sessions[id].state = "GENERATING_PLAN"
           /\ sessions[id].address # "" /\ last'.gen.ok)
          => /\ sessions'[id].state = "PRESENTING_PLAN"
             /\ sessions'[id].activity_type # None
             /\ sessions[id].activity_type = None
                   => sessions'[id].activity_type = AFamily
             /\ sessions'[id].shown_place_ids = last'.places
             /\ last'.places = ExtractAndEnrichPlaces(last'.gen)
             /\ last'.reply = last'.gen.text
             /\ (last'.qr = <<QRShowMore>>)
                   <=> sessions'[id].spots_request_count < MaxSpotRequests]_vars

\* C8: in PRESENTING_PLAN a show-more utterance with the counter below 2
\* generates again at the raised temperature, excluding every place already
\* shown, and on success appends the new place ids to shown_place_ids, adds
\* one to the counter and keeps the session in PRESENTING_PLAN.
C8_ShowMoreCycle ==
    [][\A id \in SessionIds :
          (Turn(id) /\ sessions[id].state = "PRESENTING_PLAN"
           /\ ShowMoreTrigger(last'.msg)
           /\ sessions[id].spots_request_count < MaxSpotRequests)
          => /\ last'.tr.gen = 1
             /\ last'.tr.exclude = sessions[id].shown_place_ids
             /\ last'.tr.temp = "0.85"
             /\ last'.gen.ok
                   => /\ sessions'[id].shown_place_ids
                            = sessions[id].shown_place_ids \o last'.places
                      /\ sessions'[id].spots_request_count
                            = sessions[id].spots_request_count + 1
                      /\ sessions'[id].state = "PRESENTING_PLAN"]_vars

\* C9: once the counter has reached 2, a further show-more utterance in
\* PRESENTING_PLAN is answered with the refusal message, and no generation is
\* attempted, the counter is not incremented, shown_place_ids and the state
\* are unchanged.
C9_ShowMoreRefused ==
    [][\A id \in SessionIds :
          (Turn(id) /\ sessions[id].state = "PRESENTING_PLAN"
           /\ ShowMoreTrigger(last'.msg)
           /\ sessions[id].spots_request_count >= MaxSpotRequests)
          => /\ last'.status = 200
             /\ last'.reply = RRefusal
             /\ last'.tr.gen = 0
             /\ sessions'[id].spots_request_count = sessions[id].spots_request_count
             /\ sessions'[id].shown_place_ids = sessions[id].shown_place_ids
             /\ sessions'[id].state = "PRESENTING_PLAN"]_vars

\* A successful show-more cycle of the session id
ShowMoreSucceeded(id) ==
    /\ Turn(id)
    /\ sessions[id].state = "PRESENTING_PLAN"
    /\ ShowMoreTrigger(last'.msg)
    /\ last'.status = 200
    /\ last'.tr.gen = 1
    /\ last'.gen.ok

Entries(seq) == { seq[i] : i \in DOMAIN seq }

\* C18: has_sufficient_preferences answers true exactly when the address is
\* non-empty and the activity type or the travel time is known, for every
\* combination of preference values; it answers false whenever the address
\* is empty, whatever the other fields hold.
C18_SufficientIff ==
    last.op = "sufficient"
    => /\ last.sufficient
             <=> /\ sessions[last.id].address # ""
                 /\ \/ sessions[last.id].activity_type \notin {None, ""}
                    \/ sessions[last.id].travel_time # <<>>
       /\ sessions[last.id].address = "" => ~last.sufficient

\* C18 witness: asked about a set with every field but the address, the
\* answer was false
C18_Witness ==
    /\ last.op = "sufficient"
    /\ ~last.sufficient
    /\ sessions[last.id].address = ""
    /\ sessions[last.id].activity_type = AZoo
    /\ sessions[last.id].travel_time = <<30>>
    /\ sessions[last.id].child_age = "3"
    /\ sessions[last.id].transportation = "car"

\* C19: get_critical_missing_info lists "location", first, exactly when the
\* address is empty, and "child_age" exactly when the child age is absent and
\* the activity type carries a family/child marker; it lists nothing else.
C19_CriticalMissing ==
    last.op = "missing"
    => /\ Entries(last.missing) \subseteq {"location", "child_age"}
       /\ Len(last.missing) = Cardinality(Entries(last.missing))
       /\ "location" \in Entries(last.missing) <=> sessions[last.id].address = ""
       /\ sessions[last.id].address = "" => last.missing[1] = "location"
       /\ "child_age" \in Entries(last.missing)
             <=> /\ sessions[last.id].child_age \in {None, ""}
                 /\ sessions[last.id].activity_type \in {AFamily, AKids}

\* C19 witness: both entries were missing and came back location first
C19_Witness ==
    /\ last.op = "missing"
    /\ last.missing = <<"location", "child_age">>
    /\ sessions[last.id].activity_type = AKids

\* a is an initial part of b
IsPrefix(a, b) == Len(a) <= Len(b) /\ SubSeq(b, 1, Len(a)) = a

\* C15: over any operation on a session the message history only grows at
\* its end: the history before is an initial part of the history after (so
\* nothing is removed, edited or reordered), and a turn adds its utterance
\* after everything already there, a repeated utterance included.
C15_HistoryAppendOnly ==
    [][\A id \in DOMAIN sessions \cap DOMAIN sessions' :
          /\ IsPrefix(sessions[id].history, sessions'[id].history)
          /\ (last'.op = "send" /\ last'.id = id)
                => /\ Len(sessions'[id].history) > Len(sessions[id].history)
                   /\ sessions'[id].history[Len(sessions[id].history) + 1]
                         = [role |-> "user", content |-> last'.msg]]_vars

\* C15 witness: a session holds two different utterances in the order sent,
\* and a third operation has left them as they were
C15_Witness ==
    /\ last.op = "history"
    /\ last.id \in DOMAIN sessions
    /\ Len(sessions[last.id].history) = 2
    /\ sessions[last.id].history[1].content = UCoords
    /\ sessions[last.id].history[2].content = UPlain

\* C16: between turns the history of every session holds two messages per
\* turn, strictly alternating user then assistant: no user message stays
\* without the assistant message that answers it.
C16_HistoryPairs ==
    \A id \in DOMAIN sessions :
        /\ Len(sessions[id].history) % 2 = 0
        /\ \A i \in DOMAIN sessions[id].history :
              sessions[id].history[i].role
                 = IF i % 2 = 1 THEN "user" ELSE "assistant"

\* C17: every session has created_at <= last_updated; last_updated never
\* goes back over appends, transitions, preference updates and saves; and an
\* operation that appends a message leaves last_updated at the time of the
\* append.
C17_Timestamps ==
    /\ [](\A id \in DOMAIN sessions :
             sessions[id].created_at <= sessions[id].last_updated)
    /\ [][\A id \in DOMAIN sessions \cap DOMAIN sessions' :
             /\ sessions'[id].last_updated >= sessions[id].last_updated
             /\ sessions'[id].created_at = sessions[id].created_at
             /\ sessions'[id].history # sessions[id].history
                   => sessions'[id].last_updated = now']_vars

\* C17 witness: a session created at one time took a message at a later one
C17_Witness ==
    \E id \in DOMAIN sessions :
        /\ sessions[id].history # <<>>
        /\ sessions[id].created_at < sessions[id].last_updated
        /\ sessions[id].last_updated = now

\* The canned apology the markers of an error description select
ApologyFor(markers) ==
    IF "timeout" \in markers THEN "sorry_timeout"
    ELSE IF "quota" \in markers THEN "sorry_quota"
    ELSE IF "network" \in markers THEN "sorry_network"
    ELSE IF "auth" \in markers THEN "sorry_auth"
    ELSE "sorry_generic"

\* The turn asks the plan collaborator: a GENERATING_PLAN turn with a known
\* location, or a show-more request in PRESENTING_PLAN below the cap
AsksForPlan(id) ==
    /\ Turn(id)
    /\ \/ sessions[id].state = "GENERATING_PLAN" /\ sessions[id].address # ""
       \/ /\ sessions[id].state = "PRESENTING_PLAN"
          /\ ShowMoreTrigger(last'.msg)
          /\ sessions[id].spots_request_count < MaxSpotRequests

\* C12: when the plan collaborator raises, in GENERATING_PLAN or in the
\* show-more branch, the turn still ends normally and its reply is the
\* canned apology the error description selects (timeout, quota, network,
\* authentication, otherwise generic).
C12_GenerationErrorApology ==
    [][\A id \in SessionIds :
          (AsksForPlan(id) /\ ~last'.gen.ok)
          => /\ last'.status = 200
             /\ last'.reply = ApologyFor(last'.gen.markers)]_vars

\* C14: a session left in GENERATING_PLAN by a failed generation stays
\* usable: every later utterance attempts the generation again, and the
\* first attempt the collaborator answers puts the session in
\* PRESENTING_PLAN with the plan as the reply (so a session whose user keeps
\* writing is not stuck in GENERATING_PLAN once the collaborator succeeds).
C14_RetryAfterFailure ==
    [][\A id \in SessionIds :
          (Turn(id) /\ sessions[id].state = "GENERATING_PLAN"
           /\ sessions[id].address # "")
          => /\ last'.status = 200
             /\ last'.tr.gen = 1
             /\ last'.gen.ok
                   => /\ sessions'[id].state = "PRESENTING_PLAN"
                      /\ last'.state = "PRESENTING_PLAN"
                      /\ last'.reply = last'.gen.text]_vars

\* The user has answered the meal question at some turn
MealAnswered(s) ==
    \E i \in DOMAIN s.history :
        /\ s.history[i].role = "user"
        /\ MealsYesWord(s.history[i].content) \/ MealsNoWord(s.history[i].content)

\* The question for the first scripted item still unknown, in the order
\* activity type, meal preference, child age, travel time, transportation
\* ("all" when none is left; the code words no activity question)
ScriptedQuestion(s) ==
    IF s.activity_type \in {None, ""} THEN "ask_activity"
    ELSE IF ~MealAnswered(s) THEN RAskMeals
    ELSE IF s.child_age \in {None, ""} THEN RAskAge
    ELSE IF s.travel_time = <<>> THEN RAskTime
    ELSE IF s.transportation \in {None, ""} THEN RAskCar
    ELSE "all"

\* C20: a turn in GATHERING_PREFERENCES never calls the AI extractor and
\* ends normally; while one of the five scripted items is unknown the
\* session stays there and the reply asks for the first unknown one in the
\* fixed order; once all five are known the session goes to plan generation
\* in that turn, as the GENERATING_PLAN transition does.
C20_ScriptedGathering ==
    [][\A id \in SessionIds :
          (Turn(id) /\ sessions[id].state = "GATHERING_PREFERENCES")
          => /\ last'.status = 200
             /\ last'.tr.ext = 0
             /\ IF ScriptedQuestion(sessions'[id]) = "all"
                THEN WentToGeneration(id)
                ELSE /\ sessions'[id].state = "GATHERING_PREFERENCES"
                     /\ last'.reply = ScriptedQuestion(sessions'[id])]_vars

\* C27: the first utterance sent to a freshly created session (INITIAL, no
\* history) leaves the session in GATHERING_PREFERENCES, and the response of
\* that turn reports that state.
C27_FirstTurnGathering ==
    [][\A id \in SessionIds :
          (Turn(id) /\ sessions[id].state = "INITIAL" /\ sessions[id].history = <<>>)
          => /\ sessions'[id].state = "GATHERING_PREFERENCES"
             /\ last'.status = 200
             /\ last'.state = "GATHERING_PREFERENCES"]_vars

\* What the turn of msg on session id stores and returns when the collaborator
\* replies to the extraction prompt with llm and to the plan prompt with gen
TurnResult(id, msg, llm, gen) ==
    GenerateResponse(AddMessage(sessions[id], "user", msg), msg, llm, gen)

StoredAfter(r) ==
    IF r.raised # None THEN r.s ELSE AddMessage(r.s, "assistant", r.reply)

FailedKinds == {"raise", "nojson", "badjson"}

C30_KeywordsBeforeAI ==
    [][\A id \in SessionIds :
          (Turn(id) /\ CollectingFreeInput(sessions[id]) /\ KeywordMatched(last'.msg))
          => /\ last'.tr.ext = 0
             /\ last'.msg = U60Min => sessions'[id].travel_time = <<60>>]_vars

\* C29: a turn of a session that is in GENERATING_PLAN with no stored
\* location puts the session back in FREE_INPUT and replies with the question
\* for the departure location; it makes no generation and no places call and
\* changes no preference.
C29_NoLocationNoGeneration ==
    [][\A id \in SessionIds :
          (Turn(id) /\ sessions[id].state = "GENERATING_PLAN" /\ sessions[id].address = "")
          => /\ sessions'[id].state = "FREE_INPUT"
             /\ last'.status = 200
             /\ last'.reply = RAskDeparture
             /\ last'.tr = NoCalls
             /\ sessions'[id] = [AddMessage(AddMessage(sessions[id], "user", last'.msg),
                                            "assistant", last'.reply)
                                 EXCEPT !.state = "FREE_INPUT", !.last_updated = now]]_vars

\* The facilities of a plan whose lookup and details call both succeed
Enrichable(f) ==
    f \notin {"blank", "notfound", "raise", "nodetails", "detailsraise"}

\* C21: the enriched-place list is exactly the facilities recovered from the
\* plan text whose lookup and details call both succeeded, in their order of
\* appearance: a facility whose lookup finds nothing or raises, or whose
\* details call fails, is dropped alone, and a plan with no facility gives the
\* empty list; the call returns in every case.
C21_EnrichedPlaces ==
    last.op = "enrich"
    => /\ last.places = SelectSeq(last.gen.facilities, Enrichable)
       /\ last.error = None
       /\ last.gen.facilities = <<>> => last.places = <<>>

\* a failing facility between two that succeed: both neighbours are kept
C21_Witness ==
    /\ last.op = "enrich"
    /\ last.gen.facilities = <<"p1", "raise", "p2">>
    /\ last.places = <<"p1", "p2">>

\* How long the session has been idle
Idle(s) == now - s.last_updated

\* C25: the expiry sweep removes exactly the sessions whose last activity is
\* older than the configured timeout, leaves every other session unchanged
\* and retrievable by its identifier, and returns the number it removed; a
\* session inside the timeout window is never removed by it.
C25_SweepExact ==
    [][/\ last'.op = "sweep"
          => /\ DOMAIN sessions' =
                  {k \in DOMAIN sessions : Idle(sessions[k]) <= SessionTimeoutMinutes}
             /\ \A k \in DOMAIN sessions' : sessions'[k] = sessions[k]
             /\ last'.removed = Cardinality(DOMAIN sessions \ DOMAIN sessions')
       /\ \A k \in DOMAIN sessions \ DOMAIN sessions' :
              Idle(sessions[k]) > SessionTimeoutMinutes
       /\ (last'.op = "get" /\ last'.id \in DOMAIN sessions)
          => last'.got = <<sessions[last'.id]>>]_vars

\* a sweep removed one session and kept one that is exactly at the timeout
C25_Witness ==
    /\ last.op = "sweep"
    /\ last.removed = 1
    /\ \E k \in DOMAIN sessions : Idle(sessions[k]) = SessionTimeoutMinutes

OnlySession(id, t) ==
    /\ id \in DOMAIN sessions
    /\ sessions' = [sessions EXCEPT ![id] = t]

\* C28: each mutator of the conversation manager changes exactly its target:
\* add_user_message and add_assistant_message append one message with the
\* matching role, transition_state sets the state, update_preferences sets
\* the named fields; everything else in that session except last_updated,
\* and every other session, is unchanged, and the next get_session returns
\* the session as changed.
C28_MutatorsFrame ==
    [][/\ last'.op = "add_user"
          => OnlySession(last'.id,
                 [sessions[last'.id] EXCEPT
                    !.history = Append(@, [role |-> "user", content |-> last'.msg]),
                    !.last_updated = now])
       /\ last'.op = "add_assistant"
          => OnlySession(last'.id,
                 [sessions[last'.id] EXCEPT
                    !.history = Append(@, [role |-> "assistant", content |-> last'.msg]),
                    !.last_updated = now])
       /\ last'.op = "transition"
          => OnlySession(last'.id,
                 [sessions[last'.id] EXCEPT
                    !.state = last'.state, !.last_updated = now])
       /\ last'.op = "update"
          => \E u \in PreferenceUpdates :
                 OnlySession(last'.id,
                     [sessions[last'.id] EXCEPT
                        ![u[1]] = u[2], !.last_updated = now])
       /\ last'.op = "get" => last'.got = StoreGet(sessions, last'.id)]_vars

\* a transition on a session that has a message, a counter and a neighbour
C28_Witness ==
    /\ last.op = "transition"
    /\ Cardinality(DOMAIN sessions) = 2
    /\ sessions[last.id].history # <<>>
    /\ sessions[last.id].spots_request_count = MaxSpotRequests
    /\ sessions[last.id].created_at < sessions[last.id].last_updated

\* The step ends a turn of session id that went past the not-found test
TurnEnds(id) ==
    /\ last'.op = "send"
    /\ last'.id = id
    /\ last'.status # 404

\* C23: two turns submitted together on one session never interleave their
\* read-modify-write of the session: the turns do not overlap, and each one,
\* when it ends, has put one complete pair in the history, its user message
\* directly followed by its reply, and stored its state, so that the final
\* record is the one of the two turns run one after the other.
C23_TurnsSerial ==
    /\ [](Cardinality(inflight) <= 1)
    /\ [][\A id \in SessionIds :
            TurnEnds(id)
            => /\ id \in DOMAIN sessions /\ id \in DOMAIN sessions'
               /\ sessions[id].history # <<>>
               /\ sessions[id].history[Len(sessions[id].history)] =
                      [role |-> "user", content |-> last'.msg]
               /\ sessions'[id].history =
                      Append(sessions[id].history,
                             [role |-> "assistant", content |-> last'.reply])
               /\ last'.reply # NoReply]_vars

ExplicitAddress(address) ==
    \E llm \in LlmReplies :
        /\ llm.kind = "json"
        /\ llm.obj.explicit
        /\ llm.obj.address = address

\* C31: in a turn of a session collecting free input, a value from the AI
\* extraction never replaces a preference that was already populated, for
\* each of location, travel_time, activity_type, meals, child_age and
\* transportation, unless the extraction marks the new value as explicit
\* (turns whose utterance a keyword or the coordinate rule matches are left
\* aside: there the new value need not come from the extraction).
C31_NoClobber ==
    [][\A id \in SessionIds :
          (/\ Turn(id)
           /\ CollectingFreeInput(sessions[id])
           /\ ~KeywordMatched(last'.msg)
           /\ ~CoordMatch(last'.msg))
          => LET s == sessions[id]
                 t == sessions'[id]
             IN  /\ (s.address # "" /\ t.address # s.address) => ExplicitAddress(t.address)
                 /\ s.travel_time # <<>> => t.travel_time = s.travel_time
                 /\ Truthy(s.activity_type) => t.activity_type = s.activity_type
                 /\ s.meals # <<>> => t.meals = s.meals
                 /\ Truthy(s.child_age) => t.child_age = s.child_age
                 /\ Truthy(s.transportation) => t.transportation = s.transportation]_vars

\* The scripted turn of msg on s once s has been put back in
\* GATHERING_PREFERENCES
Reprocessed(s, msg, gen) ==
    GatheringPreferencesBranch(
        TransitionState(AddMessage(s, "user", msg), "GATHERING_PREFERENCES"), msg, gen)

\* C32: a turn of a session that is in PRESENTING_PLAN with incomplete
\* preferences puts the session back in GATHERING_PREFERENCES and processes
\* the same utterance once in that state; the reply of the turn and the
\* session it leaves are those of that one reprocessing.
C32_FallbackReprocessesOnce ==
    [][\A id \in SessionIds :
          (Turn(id) /\ sessions[id].state = "PRESENTING_PLAN" /\ ~AllFiveKnown(sessions[id]))
          => LET r == Reprocessed(sessions[id], last'.msg, last'.gen)
             IN  /\ last'.status = 200
                 /\ last'.reply = r.reply
                 /\ last'.tr.ext = 0
                 /\ sessions' = StoreUpdate(sessions, id, StoredAfter(r))]_vars

\* C33: a turn of a session in PRESENTING_PLAN whose utterance is not a
\* show-more trigger is answered with the generic plan-help reply, calls no
\* collaborator, and leaves the state, every preference, shown_place_ids and
\* the counter as they were: the session stays in PRESENTING_PLAN.
C33_PresentingStable ==
    [][\A id \in SessionIds :
          (Turn(id) /\ sessions[id].state = "PRESENTING_PLAN" /\ ~ShowMoreTrigger(last'.msg))
          => /\ last'.status = 200
             /\ last'.reply = RPlanHelp
             /\ last'.tr = NoCalls
             /\ sessions'[id] =
                    [AddMessage(AddMessage(sessions[id], "user", last'.msg),
                                "assistant", RPlanHelp)
                     EXCEPT !.last_updated = now]]_vars

\* C35: every turn ends, and within one turn the handler calls itself on the
\* same utterance at most once, whatever the state and the preferences of
\* the session; a turn that re-entered the handler went through one state
\* transition and is not back in the state it started from.
C35_OneReentry ==
    [][\A id \in SessionIds :
          Turn(id)
          => /\ last'.status \in {200, 500}
             /\ last'.tr.again <= 1
             /\ last'.tr.again = 1 => sessions'[id].state # sessions[id].state]_vars

\* a turn re-entered the handler once
C35_Witness ==
    /\ last.op = "send"
    /\ last.id \in DOMAIN sessions
    /\ last.tr.again = 1

\* The value an answered "no meals" is stored as (meals=[], chat.py:747-750)
NoMeals == <<>>

\* C36: the meals preference of a session is unknown until the user first
\* answers the meal question, and unknown is not the value of an answered
\* "no meals": a session nobody has talked to does not hold the empty list;
\* and a scripted turn that leaves the activity type known and the meals
\* unanswered asks the meal question.
C36_MealsUnknownUntilAnswered ==
    /\ [](\A id \in DOMAIN sessions :
              sessions[id].history = <<>> => sessions[id].meals # NoMeals)
    /\ [][\A id \in SessionIds :
            (/\ Turn(id)
             /\ sessions[id].state = "GATHERING_PREFERENCES"
             /\ sessions[id].history = <<>>
             /\ Truthy(sessions[id].activity_type)
             /\ ~MealsYesWord(last'.msg) /\ ~MealsNoWord(last'.msg))
            => last'.reply = RAskMeals]_vars

\* The entry a cache holds for a key that the provider did not know, not yet
\* past its time to live
CachedAbsent(cache, key, ttl_seconds) ==
    \E i \in 1..Len(cache) :
        /\ cache[i].key = key
        /\ cache[i].value = None
        /\ (now - cache[i].timestamp) * 60 <= ttl_seconds

\* C40: a lookup the provider answered with nothing is cached: geocode_address
\* or get_place_details called again with the same key within the time to live
\* returns absent without calling the provider.
C40_NotFoundCached ==
    [][/\ (/\ last'.op = "geocode"
           /\ CachedAbsent(geocoding_cache, last'.id, GeocodingTtlSeconds))
          => (last'.got = <<>> /\ last'.provider = 0 /\ last'.status = 200)
       /\ (/\ last'.op = "details"
           /\ CachedAbsent(place_details_cache, last'.id, PlaceDetailsTtlSeconds))
          => (last'.got = <<>> /\ last'.provider = 0 /\ last'.status = 200)]_vars

============================================================================
